---- MODULE Spec2Model ----
(***************************************************************************)
(* Persistent job queue and worker execution engine of DLab:               *)
(* api/managers.py (APIManager, DaemonManager) and api/command_builder.py  *)
(* on top of the record store and the FIFO queue of                        *)
(* dlab_core.infrastructure.repositories.                                  *)
(*                                                                         *)
(* Texts (byte strings, str) are sequences of tokens; the SQL NULL of a    *)
(* text column is the empty sequence; the None of an identifier is 0.      *)
(***************************************************************************)
EXTENDS Integers, Sequences, FiniteSets, TLC

\* ------------------------------------------------------------------ bounds
MaxRecords == 2
MaxEnqueues == 2
MaxKeys == 2

\* ------------------------------------------------------- program constants
num_worker_threads == 2

PROCESSED == "processed"
STARTED == "started"
DONE == "done"
ERROR == "error"
STATUSES == [processed |-> 0, started |-> 1, done |-> 2, error |-> 3]

START == "start"
STOP == "stop"
DEPLOY == "deploy"

Marker == "Traceback"

\* ------------------------------------------------------------------ inputs
Workers == 1..num_worker_threads
Requests == { << [key |-> <<"size">>, val |-> <<"medium">>] >>,
              << [key |-> <<"a", "-", "b">>, val |-> <<"1">>],
                 [key |-> <<"size">>, val |-> <<"x">>] >> }
Resources == {"project-a"}
CreateActions == {DEPLOY}
allowed_actions == {START, STOP}
ErrStreams == { <<"warning">>, <<Marker, "boom">> }
ExitCodes == {0, 1}
NoText == << >>

VARIABLES
  repo,          \* Jobs table: id -> row
  queue,         \* Queue table: sequence of rows [key, id]
  cursor,        \* key of the most recently dequeued queue row (0: none)
  enqueued,      \* history: ids passed to queue.insert, in call order
  dequeued,      \* history: ids returned by queue.get, in return order
  pc,            \* position of each worker thread in run / run_func
  record_id,     \* run_func local record_id of each worker
  entry,         \* key of the queue row queue.get delivered to each worker
  cmd,           \* command a worker passed to subprocess.Popen
  err,           \* standard error captured by p.communicate()
  exitcode,      \* exit status of the external process
  api_pc,        \* position of the submitting caller inside APIManager
  api_id,        \* id the caller's current APIManager call works on
  ret,           \* value the last APIManager call returned (0: it raised)
  infinity_loop, \* DaemonManager.infinity_loop
  blocking,      \* queue.get blocks on an empty queue (else returns None)
  py3,           \* the interpreter is Python 3 (else Python 2)
  _data,         \* Container._data: key -> value
  _frozen,       \* Container._frozen: set of keys
  _raw,          \* Container._raw: key -> closure
  _protected,    \* Container._protected: set of callables
  outcome,       \* what the last Container call did: returned, raised, invoked
  assigned       \* history: the value __setitem__ last stored under each key

vars == << repo, queue, cursor, enqueued, dequeued, pc, record_id, entry, cmd,
           err, exitcode, api_pc, api_id, ret, infinity_loop, blocking, py3,
           _data, _frozen, _raw, _protected, outcome, assigned >>

qvars == << queue, cursor, enqueued, dequeued >>
wvars == << pc, record_id, entry, cmd, err, exitcode >>
avars == << api_pc, api_id, ret >>
cvars == << infinity_loop, blocking, py3 >>
kvars == << _data, _frozen, _raw, _protected, outcome, assigned >>
pvars == << repo, qvars, wvars, avars, cvars >>

\* ------------------------------------------------------------ record store
Ids == DOMAIN repo

\* DlabModel(request, resource, action, status): a full row
DlabModel(request, resource, action, status) ==
  [request |-> request, resource |-> resource, action |-> action,
   status |-> status, error |-> NoText]

\* SQLiteRepository.insert: auto-increment id, all fields persisted
RepoNextId == Cardinality(Ids) + 1
RepoInsert(r, row) == [i \in DOMAIN r \cup {Cardinality(DOMAIN r) + 1} |->
                         IF i \in DOMAIN r THEN r[i] ELSE row]

\* SQLiteRepository.update: only the fields present in the partial record
\* are overwritten; fails when the id has no row
RepoCanUpdate(r, id) == id \in DOMAIN r
RepoUpdate(r, id, partial) ==
  [r EXCEPT ![id] = [f \in DOMAIN r[id] |->
                       IF f \in DOMAIN partial THEN partial[f] ELSE r[id][f]]]

\* SQLiteRepository.find_one
RepoFindOne(r, id) == r[id]

\* -------------------------------------------------------------- FIFO queue
\* FIFOSQLiteQueueRepository.insert: one atomic append at the tail
QueueInsert(q, n, id) == Append(q, [key |-> n + 1, id |-> id])

\* rows not yet delivered by get
QueuePending(q, c) == SelectSeq(q, LAMBDA row: row.key > c)
QueueEmpty(q, c) == QueuePending(q, c) = << >>

\* FIFOSQLiteQueueRepository.get: the head of the rows not yet delivered
QueueGet(q, c) == Head(QueuePending(q, c))

\* FIFOSQLiteQueueRepository.delete: removes the most recently dequeued row
QueueDelete(q, c) == SelectSeq(q, LAMBDA row: row.key # c)

QueueKeys(q) == { q[i].key : i \in 1..Len(q) }

\* --------------------------------------------------------- command builder
\* json.loads(self.request): a mapping in the order of the stored keys; of a
\* repeated key the first position and the last value are kept
json_loads(request) ==
  LET first(i) == \A j \in 1..(i - 1) : request[j].key # request[i].key
      last(k) == CHOOSE j \in 1..Len(request) :
                   /\ request[j].key = k
                   /\ \A l \in (j + 1)..Len(request) : request[l].key # k
      F[i \in 0..Len(request)] ==
        IF i = 0 THEN << >>
        ELSE IF first(i)
             THEN Append(F[i - 1], [key |-> request[i].key,
                                    val |-> request[last(request[i].key)].val])
             ELSE F[i - 1]
  IN F[Len(request)]

\* variant: only the first hyphen of a key is replaced
replace_first(key) ==
  [i \in 1..Len(key) |->
     IF key[i] = "-" /\ (\A j \in 1..(i - 1) : key[j] # "-") THEN "_"
     ELSE key[i]]

\* key.replace('-', '_')
replace(key) == [i \in 1..Len(key) |-> IF key[i] = "-" THEN "_" ELSE key[i]]

\* param_string.format(key, val): "--{}={}"
param_string(key, val) == <<"--">> \o key \o <<"=">> \o val

\* ' '.join(list of texts)
join(texts) ==
  LET F[i \in 0..Len(texts)] ==
        IF i = 0 THEN << >>
        ELSE IF i = 1 THEN texts[1]
             ELSE F[i - 1] \o <<" ">> \o texts[i]
  IN F[Len(texts)]

\* CommandBuilder.params
params(row) ==
  LET request_data == json_loads(row.request)
  IN join([i \in 1..Len(request_data) |->
             param_string(replace(request_data[i].key), request_data[i].val)])

executable_path == <<"bin">>
dlab == executable_path \o <<"/", "dlab">>
python == executable_path \o <<"/", "python">>

\* CommandBuilder.build_cmd
build_cmd(row) == << python, dlab, <<row.resource>>, <<row.action>>, params(row) >>

\* ------------------------------------------------------------ text helpers
\* 'Traceback' in err.decode()
HasMarker(e) == \E i \in 1..Len(e) : e[i] = Marker

\* str(DaemonManagerException(err)): err is the bytes object communicate()
\* returned; Python 3 renders it as its repr b'...', Python 2 as the text
StrOfException(e, three) == IF three THEN <<"b'">> \o e \o <<"'">> ELSE e

\* --------------------------------------------------------------- Container
\* keys, and the objects stored under them: a plain parameter, the closures
\* f (returns an object), g (returns the callable f) and e (raises), and
\* the object f returns
ContainerKeys == {"a", "b"}
Plain == {"v"}
Callables == {"f", "g", "e"}
Objects == {"obj"}
Values == Plain \cup Callables \cup Objects

\* callable(x)
callable(x) == x \in Callables

\* raw(self): the call of a closure with the container
Raises(closure) == closure = "e"
Call(closure) == IF closure = "f" THEN "obj" ELSE "f"

\* d[k] = v and del d[k] on a dict
DictSet(d, k, v) == [x \in DOMAIN d \cup {k} |-> IF x = k THEN v ELSE d[x]]
DictDel(d, k) == [x \in DOMAIN d \ {k} |-> d[x]]

\* how a call ended: the value it returned or the exception it raised, and
\* the closure it invoked ("": none)
Returned(op, key, val, closure) ==
  [op |-> op, key |-> key, val |-> val, exc |-> "", invoked |-> closure]
Raised(op, key, exc, closure) ==
  [op |-> op, key |-> key, val |-> "", exc |-> exc, invoked |-> closure]

\* Container(): args is None
Container ==
  /\ _data = << >>
  /\ _frozen = {}
  /\ _raw = << >>
  /\ _protected = {}
  /\ outcome = Returned("__init__", "", "", "")
  /\ assigned = << >>

\* Container.__setitem__(key, value)
__setitem__(key, value) ==
  /\ IF key \in _frozen
     THEN /\ outcome' = Raised("__setitem__", key, "FrozenServiceException", "")
          /\ UNCHANGED << _data, assigned >>
     ELSE /\ _data' = DictSet(_data, key, value)
          /\ assigned' = DictSet(assigned, key, value)
          /\ outcome' = Returned("__setitem__", key, "", "")
  /\ UNCHANGED << _frozen, _raw, _protected, pvars >>

\* variant: a frozen key is looked at like any other key
__getitem___nofrozen(key) ==
  /\ IF key \notin DOMAIN _data
     THEN /\ outcome' = Raised("__getitem__", key, "KeyException", "")
          /\ UNCHANGED << _data, _frozen, _raw >>
     ELSE LET raw == _data[key]
          IN IF \/ ~callable(raw)
                \/ raw \in DOMAIN _raw
                \/ raw \in _protected
             THEN /\ outcome' = Returned("__getitem__", key, raw, "")
                  /\ UNCHANGED << _data, _frozen, _raw >>
             ELSE /\ _raw' = DictSet(_raw, key, raw)
                  /\ _frozen' = _frozen \cup {key}
                  /\ IF Raises(raw)
                     THEN /\ outcome' = Raised("__getitem__", key,
                                               "Exception", raw)
                          /\ UNCHANGED _data
                     ELSE /\ _data' = DictSet(_data, key, Call(raw))
                          /\ outcome' = Returned("__getitem__", key,
                                                 Call(raw), raw)
  /\ UNCHANGED << _protected, assigned, pvars >>

\* Container.__getitem__(key)
__getitem__(key) ==
  /\ IF key \notin DOMAIN _data
     THEN /\ outcome' = Raised("__getitem__", key, "KeyException", "")
          /\ UNCHANGED << _data, _frozen, _raw >>
     ELSE LET raw == _data[key]
          IN IF \/ ~callable(raw)
                \/ key \in _frozen
                \/ raw \in DOMAIN _raw
                \/ raw \in _protected
             THEN /\ outcome' = Returned("__getitem__", key, raw, "")
                  /\ UNCHANGED << _data, _frozen, _raw >>
             ELSE /\ _raw' = DictSet(_raw, key, raw)
                  /\ _frozen' = _frozen \cup {key}
                  /\ IF Raises(raw)
                     THEN /\ outcome' = Raised("__getitem__", key,
                                               "Exception", raw)
                          /\ UNCHANGED _data
                     ELSE /\ _data' = DictSet(_data, key, Call(raw))
                          /\ outcome' = Returned("__getitem__", key,
                                                 Call(raw), raw)
  /\ UNCHANGED << _protected, assigned, pvars >>

\* variant: the deleted key keeps its frozen mark
__delitem___keepfrozen(key) ==
  /\ IF key \notin DOMAIN _data
     THEN /\ outcome' = Raised("__delitem__", key, "KeyException", "")
          /\ UNCHANGED << _data, _frozen, _raw, _protected, assigned >>
     ELSE LET raw == _data[key]
          IN /\ _data' = DictDel(_data, key)
             /\ _raw' = DictDel(_raw, key)
             /\ _protected' = _protected \ {raw}
             /\ assigned' = DictDel(assigned, key)
             /\ outcome' = Returned("__delitem__", key, "", "")
             /\ UNCHANGED _frozen
  /\ UNCHANGED pvars

\* Container.__delitem__(key)
__delitem__(key) ==
  /\ IF key \notin DOMAIN _data
     THEN /\ outcome' = Raised("__delitem__", key, "KeyException", "")
          /\ UNCHANGED << _data, _frozen, _raw, _protected, assigned >>
     ELSE LET raw == _data[key]
          IN /\ _data' = DictDel(_data, key)
             /\ _frozen' = _frozen \ {key}
             /\ _raw' = DictDel(_raw, key)
             /\ _protected' = _protected \ {raw}
             /\ assigned' = DictDel(assigned, key)
             /\ outcome' = Returned("__delitem__", key, "", "")
  /\ UNCHANGED pvars

\* Container.__len__()
__len__ == Cardinality(DOMAIN _data)

\* variant: clear empties _data only
clear_dataonly ==
  /\ _data' = << >>
  /\ assigned' = << >>
  /\ outcome' = Returned("clear", "", "", "")
  /\ UNCHANGED << _frozen, _raw, _protected, pvars >>

\* Container.clear()
clear ==
  /\ _data' = << >>
  /\ _frozen' = {}
  /\ _raw' = << >>
  /\ _protected' = {}
  /\ assigned' = << >>
  /\ outcome' = Returned("clear", "", "", "")
  /\ UNCHANGED pvars

\* variant: raw reads _data only
raw_data(key) ==
  /\ outcome' = IF key \notin DOMAIN _data
                THEN Raised("raw", key, "KeyException", "")
                ELSE Returned("raw", key, _data[key], "")
  /\ UNCHANGED << _data, _frozen, _raw, _protected, assigned, pvars >>

\* Container.raw(key)
raw(key) ==
  /\ outcome' = IF key \notin DOMAIN _data
                THEN Raised("raw", key, "KeyException", "")
                ELSE IF key \in DOMAIN _raw
                     THEN Returned("raw", key, _raw[key], "")
                     ELSE Returned("raw", key, _data[key], "")
  /\ UNCHANGED << _data, _frozen, _raw, _protected, assigned, pvars >>

\* Container.protect(func)
protect(func) ==
  /\ IF ~callable(func)
     THEN /\ outcome' = Raised("protect", "", "ExpectedCallableException", "")
          /\ UNCHANGED _protected
     ELSE /\ _protected' = _protected \cup {func}
          /\ outcome' = Returned("protect", "", func, "")
  /\ UNCHANGED << _data, _frozen, _raw, assigned, pvars >>

\* ------------------------------------------------------------------- init
Init ==
  /\ repo = << >>
  /\ queue = << >>
  /\ cursor = 0
  /\ enqueued = << >>
  /\ dequeued = << >>
  /\ pc = [w \in Workers |-> "idle"]
  /\ record_id = [w \in Workers |-> 0]
  /\ entry = [w \in Workers |-> 0]
  /\ cmd = [w \in Workers |-> << >>]
  /\ err = [w \in Workers |-> NoText]
  /\ exitcode = [w \in Workers |-> 0]
  /\ api_pc = "idle"
  /\ api_id = 0
  /\ ret = 0
  /\ infinity_loop \in BOOLEAN
  /\ blocking \in BOOLEAN
  /\ py3 \in BOOLEAN
  /\ Container

\* ------------------------------------------------------------- APIManager
\* variant: the new row is stored with status started
CreateRecordInsert_started(data, resource, action) ==
  /\ api_pc = "idle"
  /\ Cardinality(Ids) < MaxRecords
  /\ Len(enqueued) < MaxEnqueues
  /\ repo' = RepoInsert(repo, DlabModel(data, resource, action,
                                        STATUSES[STARTED]))
  /\ api_id' = RepoNextId
  /\ api_pc' = "create_enqueue"
  /\ UNCHANGED << ret, qvars, wvars, cvars, kvars >>

\* create_record, repo.insert(DlabModel(..., status=STATUSES[PROCESSED]))
CreateRecordInsert(data, resource, action) ==
  /\ api_pc = "idle"
  /\ Cardinality(Ids) < MaxRecords
  /\ Len(enqueued) < MaxEnqueues
  /\ repo' = RepoInsert(repo, DlabModel(data, resource, action,
                                        STATUSES[PROCESSED]))
  /\ api_id' = RepoNextId
  /\ api_pc' = "create_enqueue"
  /\ UNCHANGED << ret, qvars, wvars, cvars, kvars >>

\* create_record, queue.insert(FIFOModel(id=record_id)); return record_id
CreateRecordEnqueue ==
  /\ api_pc = "create_enqueue"
  /\ queue' = QueueInsert(queue, Len(enqueued), api_id)
  /\ enqueued' = Append(enqueued, api_id)
  /\ ret' = api_id
  /\ api_pc' = "idle"
  /\ UNCHANGED << repo, cursor, dequeued, api_id, wvars, cvars, kvars >>

\* variant: the transition writes the status and leaves the action as it was
DeleteRecordUpdate_keepaction(id, action) ==
  /\ api_pc = "idle"
  /\ Len(enqueued) < MaxEnqueues
  /\ IF RepoCanUpdate(repo, id)
     THEN /\ repo' = RepoUpdate(repo, id, [status |-> STATUSES[PROCESSED]])
          /\ api_id' = id
          /\ api_pc' = "delete_enqueue"
          /\ UNCHANGED ret
     ELSE /\ ret' = 0
          /\ UNCHANGED << repo, api_id, api_pc >>
  /\ UNCHANGED << qvars, wvars, cvars, kvars >>

\* variant: the transition also clears the error of the earlier attempt
DeleteRecordUpdate_clearerror(id, action) ==
  /\ api_pc = "idle"
  /\ Len(enqueued) < MaxEnqueues
  /\ IF RepoCanUpdate(repo, id)
     THEN /\ repo' = RepoUpdate(repo, id, [status |-> STATUSES[PROCESSED],
                                           action |-> action,
                                           error |-> NoText])
          /\ api_id' = id
          /\ api_pc' = "delete_enqueue"
          /\ UNCHANGED ret
     ELSE /\ ret' = 0
          /\ UNCHANGED << repo, api_id, api_pc >>
  /\ UNCHANGED << qvars, wvars, cvars, kvars >>

\* variant: an update that matches no row does not raise
DeleteRecordUpdate_silent(id, action) ==
  /\ api_pc = "idle"
  /\ Len(enqueued) < MaxEnqueues
  /\ IF RepoCanUpdate(repo, id)
     THEN repo' = RepoUpdate(repo, id, [status |-> STATUSES[PROCESSED],
                                        action |-> action])
     ELSE UNCHANGED repo
  /\ api_id' = id
  /\ api_pc' = "delete_enqueue"
  /\ UNCHANGED << ret, qvars, wvars, cvars, kvars >>

\* delete_record, repo.update(DlabModel(id, status=PROCESSED, action));
\* an id without a row makes update raise, and the call ends there
DeleteRecordUpdate(id, action) ==
  /\ api_pc = "idle"
  /\ Len(enqueued) < MaxEnqueues
  /\ IF RepoCanUpdate(repo, id)
     THEN /\ repo' = RepoUpdate(repo, id, [status |-> STATUSES[PROCESSED],
                                           action |-> action])
          /\ api_id' = id
          /\ api_pc' = "delete_enqueue"
          /\ UNCHANGED ret
     ELSE /\ ret' = 0
          /\ UNCHANGED << repo, api_id, api_pc >>
  /\ UNCHANGED << qvars, wvars, cvars, kvars >>

\* delete_record, queue.insert(FIFOModel(id=object['id'])); return object['id']
DeleteRecordEnqueue ==
  /\ api_pc = "delete_enqueue"
  /\ queue' = QueueInsert(queue, Len(enqueued), api_id)
  /\ enqueued' = Append(enqueued, api_id)
  /\ ret' = api_id
  /\ api_pc' = "idle"
  /\ UNCHANGED << repo, cursor, dequeued, api_id, wvars, cvars, kvars >>

\* ----------------------------------------------------------- DaemonManager
\* variant: run loops whatever the flag says
AfterRunFunc_always == "idle"

\* end of one run_func call inside run: loop again or leave the thread
AfterRunFunc == IF infinity_loop THEN "idle" ELSE "stopped"

\* run_func returns: its locals (record_id, cmd, p, out, err) are gone
Return(w) ==
  /\ record_id' = [record_id EXCEPT ![w] = 0]
  /\ entry' = [entry EXCEPT ![w] = 0]
  /\ cmd' = [cmd EXCEPT ![w] = << >>]
  /\ err' = [err EXCEPT ![w] = NoText]
  /\ exitcode' = [exitcode EXCEPT ![w] = 0]

\* variant: the head row is read without moving the queue's cursor
StartTaskGet_peek(w) ==
  /\ pc[w] = "idle"
  /\ IF QueueEmpty(queue, cursor)
     THEN /\ ~blocking
          /\ record_id' = [record_id EXCEPT ![w] = 0]
          /\ entry' = [entry EXCEPT ![w] = 0]
          /\ UNCHANGED dequeued
     ELSE /\ record_id' = [record_id EXCEPT ![w] = QueueGet(queue, cursor).id]
          /\ entry' = [entry EXCEPT ![w] = QueueGet(queue, cursor).key]
          /\ dequeued' = Append(dequeued, QueueGet(queue, cursor).id)
  /\ pc' = [pc EXCEPT ![w] = "start_update"]
  /\ UNCHANGED << repo, queue, cursor, enqueued, cmd, err, exitcode, avars,
                  cvars, kvars >>

\* variant: the newest pending row is taken instead of the oldest
StartTaskGet_lifo(w) ==
  LET pending == QueuePending(queue, cursor)
      row == pending[Len(pending)]
  IN /\ pc[w] = "idle"
     /\ IF pending = << >>
        THEN /\ ~blocking
             /\ record_id' = [record_id EXCEPT ![w] = 0]
             /\ entry' = [entry EXCEPT ![w] = 0]
             /\ UNCHANGED << cursor, dequeued >>
        ELSE /\ record_id' = [record_id EXCEPT ![w] = row.id]
             /\ entry' = [entry EXCEPT ![w] = row.key]
             /\ cursor' = row.key
             /\ dequeued' = Append(dequeued, row.id)
     /\ pc' = [pc EXCEPT ![w] = "start_update"]
     /\ UNCHANGED << repo, queue, enqueued, cmd, err, exitcode, avars,
                     cvars, kvars >>

\* start_task, record_id = self.queue.get()
StartTaskGet(w) ==
  /\ pc[w] = "idle"
  /\ IF QueueEmpty(queue, cursor)
     THEN /\ ~blocking
          /\ record_id' = [record_id EXCEPT ![w] = 0]
          /\ entry' = [entry EXCEPT ![w] = 0]
          /\ UNCHANGED << cursor, dequeued >>
     ELSE /\ record_id' = [record_id EXCEPT ![w] = QueueGet(queue, cursor).id]
          /\ entry' = [entry EXCEPT ![w] = QueueGet(queue, cursor).key]
          /\ cursor' = QueueGet(queue, cursor).key
          /\ dequeued' = Append(dequeued, QueueGet(queue, cursor).id)
  /\ pc' = [pc EXCEPT ![w] = "start_update"]
  /\ UNCHANGED << repo, queue, enqueued, cmd, err, exitcode, avars,
                  cvars, kvars >>

\* variant: start_task does not write the status
StartTaskUpdate_nowrite(w) ==
  /\ pc[w] = "start_update"
  /\ IF RepoCanUpdate(repo, record_id[w])
     THEN pc' = [pc EXCEPT ![w] = "command"]
     ELSE pc' = [pc EXCEPT ![w] = "dead"]
  /\ UNCHANGED << repo, record_id, entry, cmd, err, exitcode, qvars, avars,
                  cvars, kvars >>

\* variant: an update for the id None matches no row and does not raise
StartTaskUpdate_none(w) ==
  /\ pc[w] = "start_update"
  /\ IF RepoCanUpdate(repo, record_id[w])
     THEN repo' = RepoUpdate(repo, record_id[w],
                             [status |-> STATUSES[STARTED]])
     ELSE UNCHANGED repo
  /\ pc' = [pc EXCEPT ![w] = "command"]
  /\ UNCHANGED << record_id, entry, cmd, err, exitcode, qvars, avars,
                  cvars, kvars >>

\* start_task, self.repo.update(DlabModel(id=record_id, status=STARTED));
\* a failing update raises out of run_func and ends the thread
StartTaskUpdate(w) ==
  /\ pc[w] = "start_update"
  /\ IF RepoCanUpdate(repo, record_id[w])
     THEN /\ repo' = RepoUpdate(repo, record_id[w],
                                [status |-> STATUSES[STARTED]])
          /\ pc' = [pc EXCEPT ![w] = "command"]
     ELSE /\ pc' = [pc EXCEPT ![w] = "dead"]
          /\ UNCHANGED repo
  /\ UNCHANGED << record_id, entry, cmd, err, exitcode, qvars, avars,
                  cvars, kvars >>

\* get_execution_command (find_one, build_cmd) and subprocess.Popen(cmd)
Popen(w) ==
  /\ pc[w] = "command"
  /\ cmd' = [cmd EXCEPT ![w] = build_cmd(RepoFindOne(repo, record_id[w]))]
  /\ pc' = [pc EXCEPT ![w] = "running"]
  /\ UNCHANGED << repo, record_id, entry, err, exitcode, qvars, avars,
                  cvars, kvars >>

\* out, err = p.communicate(): the process exits, its streams are captured
Communicate(w, e, code) ==
  /\ pc[w] = "running"
  /\ err' = [err EXCEPT ![w] = e]
  /\ exitcode' = [exitcode EXCEPT ![w] = code]
  /\ pc' = [pc EXCEPT ![w] = "exited"]
  /\ UNCHANGED << repo, record_id, entry, cmd, qvars, avars, cvars, kvars >>

\* variant: a worker finishes only after the workers that dequeued before it
FinishTaskDelete_inorder(w) ==
  /\ pc[w] = "exited"
  /\ ~HasMarker(err[w])
  /\ \A v \in Workers \ {w} : entry[v] # 0 => entry[v] > entry[w]
  /\ queue' = QueueDelete(queue, cursor)
  /\ pc' = [pc EXCEPT ![w] = "finish_update"]
  /\ UNCHANGED << repo, cursor, enqueued, dequeued, record_id, entry, cmd, err,
                  exitcode, avars, cvars, kvars >>

\* finish_task, self.queue.delete()
FinishTaskDelete(w) ==
  /\ pc[w] = "exited"
  /\ ~HasMarker(err[w])
  /\ queue' = QueueDelete(queue, cursor)
  /\ pc' = [pc EXCEPT ![w] = "finish_update"]
  /\ UNCHANGED << repo, cursor, enqueued, dequeued, record_id, entry, cmd, err,
                  exitcode, avars, cvars, kvars >>

\* variant: the update has no id filter and marks every started row done
FinishTaskUpdate_everystarted(w) ==
  /\ pc[w] = "finish_update"
  /\ repo' = [i \in DOMAIN repo |->
                IF i = record_id[w] \/ repo[i].status = STATUSES[STARTED]
                THEN [repo[i] EXCEPT !.status = STATUSES[DONE]]
                ELSE repo[i]]
  /\ pc' = [pc EXCEPT ![w] = AfterRunFunc]
  /\ Return(w)
  /\ UNCHANGED << qvars, avars, cvars, kvars >>

\* finish_task, self.repo.update(DlabModel(id=record_id, status=DONE))
FinishTaskUpdate(w) ==
  /\ pc[w] = "finish_update"
  /\ repo' = RepoUpdate(repo, record_id[w], [status |-> STATUSES[DONE]])
  /\ pc' = [pc EXCEPT ![w] = AfterRunFunc]
  /\ Return(w)
  /\ UNCHANGED << qvars, avars, cvars, kvars >>

\* variant: failure is detected from a non-zero exit status
ProcessError_exitcode(w) ==
  /\ pc[w] = "exited"
  /\ exitcode[w] # 0
  /\ repo' = RepoUpdate(repo, record_id[w],
                        [status |-> STATUSES[ERROR],
                         error |-> StrOfException(err[w], py3)])
  /\ pc' = [pc EXCEPT ![w] = AfterRunFunc]
  /\ Return(w)
  /\ UNCHANGED << qvars, avars, cvars, kvars >>

\* variant: the handler records the error and lets the exception leave run
ProcessError_raise(w) ==
  /\ pc[w] = "exited"
  /\ HasMarker(err[w])
  /\ repo' = RepoUpdate(repo, record_id[w],
                        [status |-> STATUSES[ERROR],
                         error |-> StrOfException(err[w], py3)])
  /\ pc' = [pc EXCEPT ![w] = "dead"]
  /\ Return(w)
  /\ UNCHANGED << qvars, avars, cvars, kvars >>

\* raise DaemonManagerException(err); process_error(record_id, str(e))
ProcessError(w) ==
  /\ pc[w] = "exited"
  /\ HasMarker(err[w])
  /\ repo' = RepoUpdate(repo, record_id[w],
                        [status |-> STATUSES[ERROR],
                         error |-> StrOfException(err[w], py3)])
  /\ pc' = [pc EXCEPT ![w] = AfterRunFunc]
  /\ Return(w)
  /\ UNCHANGED << qvars, avars, cvars, kvars >>

\* the worker is about to call into the store or the queue: queue.get,
\* repo.update, repo.find_one, queue.delete
StorageCall(w) ==
  pc[w] \in {"idle", "start_update", "command", "exited", "finish_update"}

\* variant: run_func catches every exception and records it on the row
StorageFailure_absorbed(w) ==
  /\ StorageCall(w)
  /\ IF RepoCanUpdate(repo, record_id[w])
     THEN /\ repo' = RepoUpdate(repo, record_id[w],
                                [status |-> STATUSES[ERROR],
                                 error |-> <<"storage">>])
          /\ pc' = [pc EXCEPT ![w] = AfterRunFunc]
     ELSE /\ pc' = [pc EXCEPT ![w] = "dead"]
          /\ UNCHANGED repo
  /\ Return(w)
  /\ UNCHANGED << qvars, avars, cvars, kvars >>

\* the store or the queue raises inside a worker iteration: the exception is
\* no DaemonManagerException, so it leaves run_func and run and the thread
\* ends; the call that raised has written nothing
StorageFailure(w) ==
  /\ StorageCall(w)
  /\ pc' = [pc EXCEPT ![w] = "dead"]
  /\ Return(w)
  /\ UNCHANGED << repo, qvars, avars, cvars, kvars >>

\* variant: the builder keeps the flags of earlier calls and appends to them
GetExecutionCommand_accumulate(w) ==
  LET built == build_cmd(RepoFindOne(repo, record_id[w]))
  IN /\ pc[w] \in {"command", "running"}
     /\ cmd' = [cmd EXCEPT ![w] =
                  IF cmd[w] = << >> THEN built
                  ELSE [built EXCEPT ![5] = cmd[w][5] \o <<" ">> \o built[5]]]
     /\ pc' = [pc EXCEPT ![w] = "running"]
     /\ UNCHANGED << repo, record_id, entry, err, exitcode, qvars, avars,
                     cvars, kvars >>

\* get_execution_command(record_id): find_one, CommandBuilder(**entity),
\* build_cmd(); callable again on the same record
GetExecutionCommand(w) ==
  /\ pc[w] \in {"command", "running"}
  /\ cmd' = [cmd EXCEPT ![w] = build_cmd(RepoFindOne(repo, record_id[w]))]
  /\ pc' = [pc EXCEPT ![w] = "running"]
  /\ UNCHANGED << repo, record_id, entry, err, exitcode, qvars, avars,
                  cvars, kvars >>

\* ------------------------------------------------------------ next, spec
CreateRecord ==
  \/ \E data \in Requests, resource \in Resources, action \in CreateActions :
       CreateRecordInsert(data, resource, action)
  \/ CreateRecordEnqueue

DeleteRecord ==
  \/ \E id \in 1..MaxRecords, action \in allowed_actions :
       DeleteRecordUpdate(id, action)
  \/ DeleteRecordEnqueue

Worker(w) ==
  \/ StartTaskGet(w)
  \/ StartTaskUpdate(w)
  \/ Popen(w)
  \/ \E e \in ErrStreams, code \in ExitCodes : Communicate(w, e, code)
  \/ FinishTaskDelete(w)
  \/ FinishTaskUpdate(w)
  \/ ProcessError(w)

Next ==
  \/ CreateRecord
  \/ DeleteRecord
  \/ \E w \in Workers : Worker(w)

Spec == Init /\ [][Next]_vars

\* submissions through create_record only: every record has one attempt
NextFresh ==
  \/ CreateRecord
  \/ \E w \in Workers : Worker(w)

SpecFresh == Init /\ [][NextFresh]_vars

\* ------------------------------------------------------------ vocabulary
Holding(w) == entry[w] # 0
InAttempt(w) == pc[w] \in {"start_update", "command", "running", "exited",
                           "finish_update"}
EndsRunFunc(w) == pc'[w] \in {"idle", "stopped"}
StatusOf(i) == repo[i].status

\* ---------------------------------------------------------------- claims
\* C1: under every interleaving of the workers' queue.get() calls a queue
\* entry is delivered to one caller only: two workers never hold the same
\* entry, and there are never more deliveries than entries inserted.
C1_DeliveredToOneCaller ==
  /\ \A w1, w2 \in Workers :
       (w1 # w2 /\ Holding(w1)) => entry[w1] # entry[w2]
  /\ Len(dequeued) <= Len(enqueued)

\* the queue held one entry, worker 1 received it and worker 2 received empty
C1_Witness ==
  /\ Len(enqueued) = 1
  /\ Holding(1)
  /\ pc[2] = "start_update"
  /\ record_id[2] = 0

\* C2: FIFO ordering: the ids returned by get, in the order of return, are
\* the ids inserted by create_record and delete_record, in the order of
\* insertion.
C2_Fifo == dequeued = SubSeq(enqueued, 1, Len(dequeued))

\* two different ids went through the queue
C2_Witness ==
  /\ Len(dequeued) = 2
  /\ dequeued[1] # dequeued[2]

\* C3: status monotonicity of a freshly created record over its single
\* attempt: every change of a stored status is processed -> started,
\* started -> done or started -> error.
C3_StatusMonotonic ==
  [][\A i \in Ids :
       repo'[i].status # repo[i].status =>
         << repo[i].status, repo'[i].status >> \in
           { << STATUSES[PROCESSED], STATUSES[STARTED] >>,
             << STATUSES[STARTED], STATUSES[DONE] >>,
             << STATUSES[STARTED], STATUSES[ERROR] >> }]_vars

\* one record went to done and the other to error
C3_Witness ==
  /\ Ids = {1, 2}
  /\ StatusOf(1) = STATUSES[DONE]
  /\ StatusOf(2) = STATUSES[ERROR]

\* C4: while the external process of a record executes, the stored status of
\* that record is started.
C4_RunningIsStarted ==
  \A w \in Workers :
    pc[w] = "running" => StatusOf(record_id[w]) = STATUSES[STARTED]

\* C5: an attempt whose error stream holds no failure marker ends with the
\* record's status done and with the attempt's queue entry removed.
C5_SuccessPath ==
  [][\A w \in Workers :
       (pc[w] = "finish_update" /\ EndsRunFunc(w)) =>
         /\ repo'[record_id[w]].status = STATUSES[DONE]
         /\ entry[w] \notin QueueKeys(queue')]_vars

\* C6: an attempt whose error stream holds the failure marker ends with the
\* record's status error and its error field equal to the captured stream.
C6_ErrorPath ==
  [][\A w \in Workers :
       (pc[w] = "exited" /\ HasMarker(err[w]) /\ EndsRunFunc(w)) =>
         /\ repo'[record_id[w]].status = STATUSES[ERROR]
         /\ repo'[record_id[w]].error = err[w]]_vars

\* C7: once a worker has recorded error for an attempt, the queue entry of
\* that attempt is no longer in the queue.
C7_ErrorRemovesEntry ==
  [][\A w \in Workers :
       (pc[w] = "exited" /\ HasMarker(err[w]) /\ EndsRunFunc(w)) =>
         entry[w] \notin QueueKeys(queue')]_vars

\* C8: as long as the external process of an attempt has not exited, the
\* queue entry of that attempt is still in the queue.
C8_EntryKeptWhileRunning ==
  \A w \in Workers :
    (Holding(w) /\ pc[w] \in {"start_update", "command", "running"}) =>
      entry[w] \in QueueKeys(queue)

\* C9: create_record stores a new row with exactly the given request,
\* resource and action and status processed, appends one queue entry for the
\* new id at the tail, and returns that id without waiting for a worker;
\* every other row and every earlier queue entry is unchanged.
C9_CreateRecord ==
  /\ [][\A data \in Requests, resource \in Resources, action \in CreateActions :
          CreateRecordInsert(data, resource, action) =>
            /\ Ids' = Ids \cup {api_id'}
            /\ api_id' \notin Ids
            /\ repo'[api_id'] = [request |-> data, resource |-> resource,
                                 action |-> action,
                                 status |-> STATUSES[PROCESSED],
                                 error |-> NoText]
            /\ \A i \in Ids : repo'[i] = repo[i]
            /\ queue' = queue]_vars
  /\ [][CreateRecordEnqueue =>
          /\ Len(queue') = Len(queue) + 1
          /\ queue'[Len(queue')].id = api_id
          /\ queue'[Len(queue')].key > cursor'
          /\ SubSeq(queue', 1, Len(queue)) = queue
          /\ ret' = api_id
          /\ repo' = repo
          /\ repo[api_id].status = STATUSES[PROCESSED]]_vars
  /\ [](api_pc = "create_enqueue" => ENABLED CreateRecordEnqueue)

\* a second record was created behind a queued first one and its id returned
C9_Witness ==
  /\ api_pc = "idle"
  /\ ret = 2
  /\ Len(queue) = 2
  /\ queue[2].id = 2
  /\ StatusOf(2) = STATUSES[PROCESSED]
  /\ \A w \in Workers : pc[w] = "idle"

C11_MarkerDecides ==
  /\ [][\A w \in Workers :
          (pc[w] \in {"exited", "finish_update"} /\ EndsRunFunc(w)) =>
            repo'[record_id[w]].status =
              IF HasMarker(err[w]) THEN STATUSES[ERROR] ELSE STATUSES[DONE]]_vars
  /\ [][\A w \in Workers :
          (pc[w] = "exited" /\ pc'[w] = "finish_update") =>
            ~HasMarker(err[w])]_vars

\* worker 1 is finishing an attempt that exited non-zero without the marker
\* while worker 2 holds an attempt that exited zero with the marker
C11_Witness ==
  /\ pc[1] = "finish_update"
  /\ exitcode[1] # 0
  /\ ~HasMarker(err[1])
  /\ pc[2] = "exited"
  /\ exitcode[2] = 0
  /\ HasMarker(err[2])

\* C12: a detected execution failure is absorbed into the failing job's
\* row: recording error changes no other row and no other worker, a worker
\* in loop mode is back at the head of its loop, and an idle worker can
\* dequeue whenever an undelivered entry is queued.
C12_FailureAbsorbed ==
  /\ [][\A w \in Workers :
          (pc[w] = "exited" /\ HasMarker(err[w]) /\ pc'[w] # pc[w]) =>
            /\ \A i \in Ids \ {record_id[w]} : repo'[i] = repo[i]
            /\ \A v \in Workers \ {w} : pc'[v] = pc[v]
            /\ infinity_loop => pc'[w] = "idle"
            /\ ~infinity_loop => pc'[w] = "stopped"]_vars
  /\ [](\A w \in Workers :
          (pc[w] = "idle" /\ ~QueueEmpty(queue, cursor)) =>
            ENABLED StartTaskGet(w))

\* record 1 ended in error and a looping worker executes record 2 after it
C12_Witness ==
  /\ infinity_loop
  /\ dequeued = << 1, 2 >>
  /\ StatusOf(1) = STATUSES[ERROR]
  /\ pc[1] = "running"
  /\ record_id[1] = 2
  /\ pc[2] = "idle"
  /\ StatusOf(2) = STATUSES[STARTED]


\* the program with a store and a queue that can fail under the workers
NextStorage ==
  \/ Next
  \/ \E w \in Workers : StorageFailure(w)

SpecStorage == Init /\ [][NextStorage]_vars

\* C13: a storage failure in a worker iteration is not absorbed into the
\* row: it ends that worker's loop for good, the failing call writes nothing
\* (the row is not marked error), and every other worker stays where it is
\* and can still dequeue.
C13_StorageFailurePropagates ==
  /\ [][\A w \in Workers :
          (StorageFailure(w) \/ (pc[w] # "dead" /\ pc'[w] = "dead")) =>
            /\ pc'[w] = "dead"
            /\ repo' = repo
            /\ queue' = queue
            /\ \A v \in Workers \ {w} : pc'[v] = pc[v]]_vars
  /\ [][\A w \in Workers : pc[w] = "dead" => pc'[w] = "dead"]_vars
  /\ [](\A v \in Workers :
          (pc[v] = "idle" /\ ~QueueEmpty(queue, cursor)) =>
            ENABLED StartTaskGet(v))

\* worker 1 died inside the attempt of record 1, which still reads started,
\* and worker 2 executes record 2
C13_Witness ==
  /\ Ids = {1, 2}
  /\ pc[1] = "dead"
  /\ StatusOf(1) = STATUSES[STARTED]
  /\ pc[2] = "running"
  /\ record_id[2] = 2
  /\ StatusOf(2) = STATUSES[STARTED]


\* C14 (as stated): no step of the Job Submission API changes the status or
\* the error of an existing row; only worker steps do.
C14_OnlyWorkersWrite ==
  [][pc' = pc =>
       \A i \in Ids : /\ repo'[i].status = repo[i].status
                       /\ repo'[i].error = repo[i].error]_vars

\* C14 (amended): the only step of the Job Submission API that changes the
\* status of an existing row is delete_record's update, which sets the status
\* of the row it names to processed; no step of the API changes an error.
C14_ApiWritesOnlyTransition ==
  [][pc' = pc =>
       \A i \in Ids :
         /\ repo'[i].error = repo[i].error
         /\ \/ repo'[i].status = repo[i].status
            \/ /\ api_pc = "idle"
               /\ api_pc' = "delete_enqueue"
               /\ i = api_id'
               /\ repo'[i].status = STATUSES[PROCESSED]]_vars

\* delete_record has reset the status of a row that ended in error
C14_Witness ==
  /\ api_pc = "delete_enqueue"
  /\ StatusOf(api_id) = STATUSES[PROCESSED]
  /\ repo[api_id].error # NoText

\* C15: a row's error field is populated only while its status is error.
C15_ErrorOnlyWithStatusError ==
  \A i \in Ids : repo[i].error # NoText => StatusOf(i) = STATUSES[ERROR]

\* C16: every id in the queue, and every id a worker dequeued, has a row in
\* the record store.
C16_QueueReferencesRecords ==
  /\ \A k \in 1..Len(queue) : queue[k].id \in Ids
  /\ \A k \in 1..Len(enqueued) : enqueued[k] \in Ids
  /\ \A w \in Workers : record_id[w] # 0 => record_id[w] \in Ids

\* delete_record was called with id 2, which has no row, and raised: the
\* queue holds the entry of record 1 only
C16_Witness ==
  /\ Ids = {1}
  /\ ret = 0
  /\ api_pc = "idle"
  /\ Len(queue) = 1
  /\ queue[1].id = 1


\* ------------------------------------------- command builder on its own
\* request payloads of up to MaxKeys entries with distinct keys
BuilderKeys == { <<"size">>, <<"a", "-", "b", "-", "c">>, <<"b", "-", "x">> }
BuilderVals == { <<"medium">>, <<"1">> }
BuilderEntries == [key : BuilderKeys, val : BuilderVals]
BuilderRequests ==
  { r \in UNION { [1..n -> BuilderEntries] : n \in 0..MaxKeys } :
      \A i, j \in 1..Len(r) : i # j => r[i].key # r[j].key }

\* worker 1 has dequeued record 1 and written started; worker 2 is idle
InitBuilder ==
  /\ \E data \in BuilderRequests, resource \in Resources,
        action \in {DEPLOY, STOP} :
        repo = << [request |-> data, resource |-> resource, action |-> action,
                   status |-> STATUSES[STARTED], error |-> NoText] >>
  /\ queue = << [key |-> 1, id |-> 1] >>
  /\ cursor = 1
  /\ enqueued = << 1 >>
  /\ dequeued = << 1 >>
  /\ pc = [w \in Workers |-> IF w = 1 THEN "command" ELSE "idle"]
  /\ record_id = [w \in Workers |-> IF w = 1 THEN 1 ELSE 0]
  /\ entry = [w \in Workers |-> IF w = 1 THEN 1 ELSE 0]
  /\ cmd = [w \in Workers |-> << >>]
  /\ err = [w \in Workers |-> NoText]
  /\ exitcode = [w \in Workers |-> 0]
  /\ api_pc = "idle"
  /\ api_id = 1
  /\ ret = 1
  /\ infinity_loop = TRUE
  /\ blocking = TRUE
  /\ py3 = TRUE
  /\ Container

NextBuilder == \E w \in Workers : GetExecutionCommand(w)

SpecBuilder == InitBuilder /\ [][NextBuilder]_vars

\* C17: the argument list holds the launcher and executable paths, the
\* resource and the action, and then one separate argument per key of the
\* request payload, each of the form --key=value.
C17_OneArgumentPerKey ==
  \A w \in Workers :
    pc[w] = "running" =>
      LET row == repo[record_id[w]]
          k == Len(row.request)
      IN /\ Len(cmd[w]) = 4 + k
         /\ cmd[w][1] = python
         /\ cmd[w][2] = dlab
         /\ cmd[w][3] = << row.resource >>
         /\ cmd[w][4] = << row.action >>
         /\ \A i \in 1..k :
              /\ SubSeq(cmd[w][4 + i], 1, 1) = << "--" >>
              /\ \E j \in 1..Len(cmd[w][4 + i]) : cmd[w][4 + i][j] = "="
              /\ \A j \in 1..Len(cmd[w][4 + i]) : cmd[w][4 + i][j] # " "

\* the flags of a payload, entry by entry in the payload's order: "--", the
\* key with every hyphen as an underscore, "=", the value; a blank between
\* two flags
RECURSIVE C18_Flags(_)
C18_Flags(request) ==
  IF request = << >> THEN << >>
  ELSE LET e == Head(request)
           name == [i \in 1..Len(e.key) |->
                      IF e.key[i] = "-" THEN "_" ELSE e.key[i]]
           flag == << "--" >> \o name \o << "=" >> \o e.val
       IN IF Tail(request) = << >> THEN flag
          ELSE flag \o << " " >> \o C18_Flags(Tail(request))

\* C18: each flag is named after its key with every hyphen replaced by an
\* underscore and carries the value unchanged, and the flags stand in the
\* order of the stored payload's keys.
C18_FlagsInPayloadOrder ==
  \A w \in Workers :
    pc[w] = "running" =>
      cmd[w][Len(cmd[w])] = C18_Flags(repo[record_id[w]].request)

\* a command was built for a payload of two entries, the first of them with
\* two hyphens in its key
C18_Witness ==
  /\ pc[1] = "running"
  /\ Len(repo[1].request) = 2
  /\ repo[1].request[1].key = <<"a", "-", "b", "-", "c">>
  /\ repo[1].request[2].key = <<"size">>

C21_SinglePass ==
  /\ [][\A w \in Workers :
          ~infinity_loop => (pc[w] # "idle" => pc'[w] # "idle")]_vars
  /\ [](~infinity_loop =>
          Len(dequeued) <= Cardinality({ w \in Workers : pc[w] # "idle" }))
  /\ [][\A w \in Workers :
          (pc[w] \in {"exited", "finish_update"} /\ EndsRunFunc(w)) =>
            pc'[w] = IF infinity_loop THEN "idle" ELSE "stopped"]_vars
  /\ [][\A w \in Workers : pc[w] = "stopped" => pc'[w] = "stopped"]_vars
  /\ [][infinity_loop' = infinity_loop]_vars
  /\ [](\A w \in Workers : pc[w] = "stopped" => ~infinity_loop)
  /\ [](\A w \in Workers :
          pc[w] \in {"start_update", "command", "running", "exited",
                     "finish_update"} => ENABLED Worker(w))

\* single-pass mode: worker 1 has executed record 1 and left its thread,
\* worker 2 is gone as well, and the entry of record 2 waits undelivered
C21_Witness ==
  /\ ~infinity_loop
  /\ Ids = {1, 2}
  /\ pc[1] = "stopped"
  /\ pc[2] \in {"stopped", "dead"}
  /\ StatusOf(1) = STATUSES[DONE]
  /\ ~QueueEmpty(queue, cursor)


\* ------------------------------------- the daemon started as __main__
\* m = DaemonManager(); m.run(): the constructor starts the worker threads
\* with the default arguments and the main thread then calls run itself
MainThread == 0
Threads == Workers \cup {MainThread}

InitMain ==
  /\ repo = << >>
  /\ queue = << >>
  /\ cursor = 0
  /\ enqueued = << >>
  /\ dequeued = << >>
  /\ pc = [t \in Threads |-> IF t = MainThread THEN "main" ELSE "idle"]
  /\ record_id = [t \in Threads |-> 0]
  /\ entry = [t \in Threads |-> 0]
  /\ cmd = [t \in Threads |-> << >>]
  /\ err = [t \in Threads |-> NoText]
  /\ exitcode = [t \in Threads |-> 0]
  /\ api_pc = "idle"
  /\ api_id = 0
  /\ ret = 0
  /\ infinity_loop = TRUE
  /\ blocking \in BOOLEAN
  /\ py3 \in BOOLEAN
  /\ Container

\* m.run() in the main thread
MainRun ==
  /\ pc[MainThread] = "main"
  /\ pc' = [pc EXCEPT ![MainThread] = "idle"]
  /\ UNCHANGED << repo, record_id, entry, cmd, err, exitcode, qvars, avars,
                  cvars, kvars >>

NextMain ==
  \/ Next
  \/ MainRun
  \/ Worker(MainThread)

SpecMain == InitMain /\ [][NextMain]_vars

\* C22: the number of worker loops that run against the queue never exceeds
\* the configured num_worker.
C22_PoolSizeFixed ==
  Cardinality({ t \in DOMAIN pc : pc[t] \notin {"main", "stopped", "dead"} })
    <= num_worker_threads


\* ------------------------------------------------ the Container on its own
\* a fresh container next to a daemon that takes no step
InitContainer ==
  /\ Init
  /\ infinity_loop
  /\ blocking
  /\ py3

NextContainer ==
  \/ \E key \in ContainerKeys, value \in Values : __setitem__(key, value)
  \/ \E key \in ContainerKeys : __getitem__(key)
  \/ \E key \in ContainerKeys : __delitem__(key)
  \/ \E key \in ContainerKeys : raw(key)
  \/ \E func \in Values : protect(func)
  \/ clear

SpecContainer == InitContainer /\ [][NextContainer]_vars


\* the closure under the key was invoked by __getitem__ and returned
Instantiated(key) == key \in _frozen /\ ~Raises(_raw[key])

C24_FrozenAfterInstantiation ==
  [][\A key \in ContainerKeys, value \in Values :
       __setitem__(key, value) =>
         IF Instantiated(key)
         THEN /\ outcome'.exc = "FrozenServiceException"
              /\ UNCHANGED << _data, _frozen, _raw, _protected >>
         ELSE /\ outcome'.exc = ""
              /\ _data'[key] = value]_vars


\* C25: a protected callable stays protected for as long as it is stored
\* under a key, whatever is done to other keys, and __getitem__ of a key
\* that holds a protected callable returns the callable itself, invokes
\* nothing and does not freeze the key.
C25_ProtectedNeverInvoked ==
  /\ [][\A key \in ContainerKeys :
          (/\ key \in DOMAIN _data
           /\ key \notin _frozen
           /\ _data[key] \in _protected
           /\ key \in DOMAIN _data'
           /\ _data'[key] = _data[key]) =>
            _data'[key] \in _protected']_vars
  /\ [][\A key \in ContainerKeys :
          (/\ __getitem__(key)
           /\ key \in DOMAIN _data
           /\ key \notin _frozen
           /\ _data[key] \in _protected) =>
            /\ outcome' = Returned("__getitem__", key, _data[key], "")
            /\ UNCHANGED << _data, _frozen, _raw, _protected >>]_vars


\* C26: raw(key) on a key of the container returns the value that
\* __setitem__ last stored under the key, also after the service has been
\* instantiated; it invokes nothing and changes nothing in the container.
C26_RawReturnsAssigned ==
  /\ [](DOMAIN assigned = DOMAIN _data)
  /\ [][\A key \in ContainerKeys :
          (raw(key) /\ key \in DOMAIN _data) =>
            /\ outcome' = Returned("raw", key, assigned[key], "")
            /\ Instantiated(key) => outcome'.val # _data[key]
            /\ UNCHANGED << _data, _frozen, _raw, _protected >>]_vars

\* raw(a) returned the closure g after g had been instantiated to f
C26_Witness ==
  /\ "a" \in _frozen
  /\ _data["a"] = "f"
  /\ outcome = Returned("raw", "a", "g", "")


C28_NoSkipNoOverwrite ==
  [][\A w \in Workers :
       /\ (pc[w] = "start_update" /\ pc'[w] = "command") =>
            StatusOf(record_id[w]) = STATUSES[PROCESSED]
       /\ (pc[w] \in {"exited", "finish_update"} /\ EndsRunFunc(w)) =>
            StatusOf(record_id[w]) = STATUSES[STARTED]]_vars


\* C29: every dequeue returns the id of the oldest insert not yet returned,
\* so the order of dequeue is the order of enqueue; and the completion of
\* an attempt waits for no other worker: the exit of a running process, the
\* finish_task or process_error after it and the write of done can each
\* happen whatever the other workers are doing, so two attempts held by two
\* workers end in either order.
C29_CompletionOrderFree ==
  /\ [][\A w \in Workers :
          (pc[w] = "idle" /\ pc'[w] = "start_update" /\ record_id'[w] # 0) =>
            /\ Len(dequeued) < Len(enqueued)
            /\ record_id'[w] = enqueued[Len(dequeued) + 1]
            /\ dequeued' = Append(dequeued, record_id'[w])]_vars
  /\ [](\A w \in Workers :
          pc[w] = "running" =>
            ENABLED (\E e \in ErrStreams, code \in ExitCodes :
                       Communicate(w, e, code)))
  /\ [](\A w \in Workers :
          pc[w] = "exited" => ENABLED (FinishTaskDelete(w) \/ ProcessError(w)))
  /\ [](\A w \in Workers :
          pc[w] = "finish_update" => ENABLED FinishTaskUpdate(w))

\* records 1 and 2 were dequeued in that order by two workers, and record 2
\* is done while the process of record 1 still runs
C29_Witness ==
  /\ dequeued = << 1, 2 >>
  /\ \E w \in Workers :
       /\ pc[w] = "running"
       /\ record_id[w] = 1
       /\ \A v \in Workers \ {w} : ~InAttempt(v)
  /\ StatusOf(1) = STATUSES[STARTED]
  /\ StatusOf(2) = STATUSES[DONE]


\* C30: a step of a worker inserts and deletes no row, leaves every row but
\* the one whose id the worker dequeued as it is, and leaves the request,
\* the resource and the action of that row as they are; the error of that
\* row changes in process_error only.
C30_WorkerFrame ==
  [][\A w \in Workers :
       pc'[w] # pc[w] =>
         /\ DOMAIN repo' = DOMAIN repo
         /\ \A i \in Ids \ {record_id[w]} : repo'[i] = repo[i]
         /\ record_id[w] \in Ids =>
              /\ repo'[record_id[w]].request = repo[record_id[w]].request
              /\ repo'[record_id[w]].resource = repo[record_id[w]].resource
              /\ repo'[record_id[w]].action = repo[record_id[w]].action
              /\ repo'[record_id[w]].error # repo[record_id[w]].error =>
                   (pc[w] = "exited" /\ HasMarker(err[w]))]_vars

\* two rows with different requests: one went to done, the other to error
\* with its error text, and the first row has no error text
C30_Witness ==
  /\ Ids = {1, 2}
  /\ repo[1].request # repo[2].request
  /\ StatusOf(1) = STATUSES[DONE]
  /\ repo[1].error = NoText
  /\ StatusOf(2) = STATUSES[ERROR]
  /\ repo[2].error # NoText
  /\ \A w \in Workers : ~InAttempt(w)


\* ------------------------------------- the daemon under fair scheduling
\* loop mode with a blocking get; jobs come in through create_record only,
\* the store and the queue never raise, and no process writes the marker
InitLive ==
  /\ Init
  /\ infinity_loop
  /\ blocking

\* the steps of a worker whose processes exit without the failure marker
LiveWorker(w) ==
  \/ StartTaskGet(w)
  \/ StartTaskUpdate(w)
  \/ Popen(w)
  \/ \E e \in { s \in ErrStreams : ~HasMarker(s) }, code \in ExitCodes :
       Communicate(w, e, code)
  \/ FinishTaskDelete(w)
  \/ FinishTaskUpdate(w)

NextLive ==
  \/ CreateRecord
  \/ \E w \in Workers : LiveWorker(w)

\* every thread keeps being scheduled, every process exits, and a
\* create_record call that has inserted its row goes on to enqueue it
SpecLive ==
  /\ InitLive
  /\ [][NextLive]_vars
  /\ \A w \in Workers : WF_vars(LiveWorker(w))
  /\ WF_vars(CreateRecordEnqueue)

\* C31: eventually, and from then on, every submitted row has status done
\* and the queue holds no entry.
C31_EventualCompletion ==
  <>[](/\ \A i \in Ids : StatusOf(i) = STATUSES[DONE]
       /\ Len(queue) = 0)


\* C32: whenever the queue entry of an attempt a worker is in has been
\* removed, the row of that attempt has a terminal status, done or error.
C32_RemovedMeansTerminal ==
  \A w \in Workers :
    (InAttempt(w) /\ Holding(w) /\ entry[w] \notin QueueKeys(queue)) =>
      StatusOf(record_id[w]) \in {STATUSES[DONE], STATUSES[ERROR]}


\* C33: in every reachable state of the container the frozen keys are the
\* keys that have a stored closure, and they are keys of the container;
\* clear leaves the container without keys, frozen marks and stored
\* closures, and its length is 0.
C33_ContainerStructure ==
  /\ [](/\ _frozen = DOMAIN _raw
        /\ _frozen \subseteq DOMAIN _data)
  /\ [][outcome'.op = "clear" =>
          /\ DOMAIN _data' = {}
          /\ _frozen' = {}
          /\ DOMAIN _raw' = {}
          /\ __len__' = 0]_vars

\* key a is frozen and has its closure stored, and key b holds the protected
\* callable f, which the last call, __getitem__ of b, left unfrozen
C33_Witness ==
  /\ _frozen = {"a"}
  /\ DOMAIN _raw = {"a"}
  /\ DOMAIN _data = {"a", "b"}
  /\ _data["b"] = "f"
  /\ "f" \in _protected
  /\ outcome.op = "__getitem__"
  /\ outcome.key = "b"


\* C34: a __getitem__ whose closure raises leaves the container as it was
\* before the call, the key unfrozen; and __getitem__ of a key that holds
\* an unprotected closure which has not been instantiated invokes it.
C34_FailedCallLeavesNoTrace ==
  /\ [][\A key \in ContainerKeys :
          (/\ __getitem__(key)
           /\ outcome'.invoked # ""
           /\ outcome'.exc # "") =>
            /\ UNCHANGED << _data, _frozen, _raw, _protected >>
            /\ key \notin _frozen']_vars
  /\ [][\A key \in ContainerKeys :
          (/\ __getitem__(key)
           /\ key \in DOMAIN _data
           /\ callable(_data[key])
           /\ _data[key] \notin _protected
           /\ ~Instantiated(key)) =>
            outcome'.invoked = _data[key]]_vars

====
